---- MODULE Spec2Model ----
(***************************************************************************)
(* Markdown clean-up pipeline of docling_serve/markdown_cleanup.py.        *)
(*                                                                         *)
(* A string is a sequence of one-character strings; a document is such a   *)
(* sequence with "\n" characters in it.  The pipeline is modelled as the   *)
(* caller's position (pc) in cleanup_markdown, with the two loops that     *)
(* carry state from one line to the next (_combine_numbered_headings and   *)
(* _reflow_paragraphs) unrolled one iteration per step.                    *)
(***************************************************************************)
EXTENDS Integers, Sequences, FiniteSets, TLC

VARIABLES
    markdown,                   \* argument of cleanup_markdown
    options,                    \* argument of cleanup_markdown
    pc,                         \* position of the caller / of cleanup_markdown
    lines,                      \* local lines of cleanup_markdown
    original_trailing_newline,  \* local of cleanup_markdown
    i,                          \* loop index of _combine_numbered_headings
    combined,                   \* local of _combine_numbered_headings
    pos,                        \* position of the for loop of _reflow_paragraphs
    reflowed,                   \* local of _reflow_paragraphs
    paragraph,                  \* local of _reflow_paragraphs
    in_code_block,              \* local of _reflow_paragraphs
    squashed,                   \* the lines _squash_blank_lines yields
    cleaned,                    \* local cleaned, the value returned
    raised,                     \* the exception that left cleanup_markdown, or "none"
    calls,                      \* number of invocations made by the caller
    task_result,                \* argument of prepare_response
    settings,                   \* docling_serve_settings, as prepare_response reads it
    response,                   \* the value prepare_response returns
    background_tasks,           \* the tasks added to background_tasks
    other,                      \* the locals of a second, suspended invocation
    task_subscribers,           \* WebsocketNotifier.task_subscribers: task id -> set object
    set_objects,                \* the members of each set object add_task has created
    task_status_ws,             \* per websocket, the position of its task_status_ws handler
    remove_task,                \* the locals of the running remove_task
    notify_task_subscribers     \* the locals of the running notify_task_subscribers

vars == <<markdown, options, pc, lines, original_trailing_newline, i, combined,
          pos, reflowed, paragraph, in_code_block, squashed, cleaned, raised, calls,
          task_result, settings, response, background_tasks, other,
          task_subscribers, set_objects, task_status_ws, remove_task,
          notify_task_subscribers>>

(***************************************************************************)
(* Characters and the str methods the module uses.                         *)
(***************************************************************************)
NL == "\n"
CR == "\r"
HASH == "#"
BACKTICK == "BACKTICK"   \* stands for the one character U+0060
ENDASH == "EN-DASH"     \* stands for the one character U+2013

UpperSeq == <<"A","B","C","D","E","F","G","H","I","J","K","L","M",
              "N","O","P","Q","R","S","T","U","V","W","X","Y","Z">>
LowerSeq == <<"a","b","c","d","e","f","g","h","i","j","k","l","m",
              "n","o","p","q","r","s","t","u","v","w","x","y","z">>
Digits == {"0","1","2","3","4","5","6","7","8","9"}
Letters == {UpperSeq[k] : k \in 1..26} \cup {LowerSeq[k] : k \in 1..26}
AlNum == Letters \cup Digits

\* str.isspace of one character
IsSpace(c) == c \in {" ", "\t", NL, CR}

\* str.lower of one character
LowerChar(c) ==
    IF \E k \in 1..26 : UpperSeq[k] = c
    THEN LowerSeq[CHOOSE k \in 1..26 : UpperSeq[k] = c]
    ELSE c

\* str.lower
Lower(s) == [k \in 1..Len(s) |-> LowerChar(s[k])]

\* the suffix of s from the 1-based position k on
From(s, k) == SubSeq(s, k, Len(s))

\* str.lstrip()
RECURSIVE LStrip(_)
LStrip(s) ==
    IF s = <<>> THEN <<>>
    ELSE IF IsSpace(Head(s)) THEN LStrip(Tail(s))
    ELSE s

\* str.rstrip()
RECURSIVE RStrip(_)
RStrip(s) ==
    IF s = <<>> THEN <<>>
    ELSE IF IsSpace(s[Len(s)]) THEN RStrip(SubSeq(s, 1, Len(s) - 1))
    ELSE s

\* str.strip()
Strip(s) == LStrip(RStrip(s))

\* str.startswith(prefix)
StartsWith(s, prefix) ==
    /\ Len(prefix) <= Len(s)
    /\ SubSeq(s, 1, Len(prefix)) = prefix

\* str.endswith(suffix)
EndsWith(s, suffix) ==
    /\ Len(suffix) <= Len(s)
    /\ SubSeq(s, Len(s) - Len(suffix) + 1, Len(s)) = suffix

\* str.count(c) of one character
CountChar(s, c) == Cardinality({k \in 1..Len(s) : s[k] = c})

\* str.splitlines(): the text is cut after each line boundary ("\n", "\r" or
\* "\r\n"); the boundaries are dropped and no empty last line is produced.
RECURSIVE SplitLines(_)
SplitLines(s) ==
    IF s = <<>> THEN <<>>
    ELSE
        LET brk == {k \in 1..Len(s) : s[k] \in {NL, CR}} IN
        IF brk = {} THEN <<s>>
        ELSE
            LET k == CHOOSE b \in brk : \A c \in brk : b <= c
                w == IF s[k] = CR /\ k < Len(s) /\ s[k + 1] = NL THEN 2 ELSE 1
            IN  <<SubSeq(s, 1, k - 1)>> \o SplitLines(From(s, k + w))

\* "\n".join(xs)
RECURSIVE JoinNL(_)
JoinNL(xs) ==
    IF xs = <<>> THEN <<>>
    ELSE IF Len(xs) = 1 THEN xs[1]
    ELSE xs[1] \o <<NL>> \o JoinNL(Tail(xs))

\* " ".join(xs)
RECURSIVE JoinSpace(_)
JoinSpace(xs) ==
    IF xs = <<>> THEN <<>>
    ELSE IF Len(xs) = 1 THEN xs[1]
    ELSE xs[1] \o <<" ">> \o JoinSpace(Tail(xs))

(***************************************************************************)
(* The three module-level patterns.  Every caller passes line.strip(), so  *)
(* the operators are defined for strings with no whitespace at either end  *)
(* and no line boundary inside.                                            *)
(***************************************************************************)
NoMatch == [ok |-> FALSE]

\* number of "#" characters s starts with
RECURSIVE LeadingHashes(_)
LeadingHashes(s) ==
    IF s = <<>> \/ Head(s) # HASH THEN 0 ELSE 1 + LeadingHashes(Tail(s))

Min(a, b) == IF a <= b THEN a ELSE b

\* the string of n "#" characters
Hashes(n) == [k \in 1..n |-> HASH]

\* _HEADING_PATTERN.match(s), ^(#{1,6})\s*(.+?)\s*$ : group 1 takes up to six "#",
\* and gives one back when nothing would be left for group 2.
HeadingMatch(s) ==
    LET n == LeadingHashes(s)
        k == Min(n, 6)
    IN  IF n = 0 THEN NoMatch
        ELSE IF Len(s) > k
             THEN [ok |-> TRUE, level |-> k, text |-> Strip(From(s, k + 1))]
        ELSE IF k >= 2
             THEN [ok |-> TRUE, level |-> k - 1, text |-> <<HASH>>]
        ELSE NoMatch

\* number of characters of Digits s starts with
RECURSIVE LeadingDigits(_)
LeadingDigits(s) ==
    IF s = <<>> \/ Head(s) \notin Digits THEN 0 ELSE 1 + LeadingDigits(Tail(s))

\* _NUMERIC_HEADING_PATTERN.match(t) and .fullmatch(t), ^(\d+)([.)])?$ :
\* punct is <<>> where group 2 is None.
NumericMatch(t) ==
    LET d == LeadingDigits(t) IN
    IF d = 0 THEN NoMatch
    ELSE IF Len(t) = d
         THEN [ok |-> TRUE, number |-> t, punct |-> <<>>]
    ELSE IF Len(t) = d + 1 /\ t[d + 1] \in {".", ")"}
         THEN [ok |-> TRUE, number |-> SubSeq(t, 1, d), punct |-> <<t[d + 1]>>]
    ELSE NoMatch

\* group 2 of _DOMAIN_HEADING_PATTERN: a label that starts and ends with a letter
\* or digit, then one or more ".label" with labels of letters, digits and "-".
DomainShape(t) ==
    LET dots == {k \in 1..Len(t) : t[k] = "."} IN
    /\ dots # {}
    /\ \A k \in 1..Len(t) : t[k] \in AlNum \cup {"-", "."}
    /\ t[1] \in AlNum
    /\ LET d == CHOOSE x \in dots : \A y \in dots : x <= y
       IN  d > 1 /\ t[d - 1] \in AlNum
    /\ \A k \in dots : k < Len(t) /\ t[k + 1] # "."

\* _DOMAIN_HEADING_PATTERN.match(s)
DomainHeadingMatch(s) ==
    LET n == LeadingHashes(s)
        t == IF n = 0 THEN <<>> ELSE Strip(From(s, n + 1))
    IN  IF n >= 1 /\ n <= 6 /\ t # <<>> /\ DomainShape(t)
        THEN [ok |-> TRUE, level |-> n, text |-> t]
        ELSE NoMatch

(***************************************************************************)
(* re.compile and Pattern.search for the entries of remove_patterns.  The  *)
(* model covers the patterns made of literal characters, groups "(" ")",   *)
(* a leading "^" and a trailing "$"; a pattern whose parentheses do not    *)
(* balance is the invalid one (re.error).                                  *)
(***************************************************************************)
\* depth of open groups after reading p, or -1 once a ")" closes nothing
RECURSIVE GroupDepth(_, _)
GroupDepth(p, depth) ==
    IF depth < 0 \/ p = <<>> THEN depth
    ELSE IF Head(p) = "(" THEN GroupDepth(Tail(p), depth + 1)
    ELSE IF Head(p) = ")" THEN GroupDepth(Tail(p), depth - 1)
    ELSE GroupDepth(Tail(p), depth)

\* the literal characters of a pattern
RECURSIVE Literals(_)
Literals(p) ==
    IF p = <<>> THEN <<>>
    ELSE IF Head(p) \in {"(", ")"} THEN Literals(Tail(p))
    ELSE <<Head(p)>> \o Literals(Tail(p))

\* re.compile(pattern, re.IGNORECASE)
ReCompile(pattern) ==
    IF GroupDepth(pattern, 0) # 0 THEN [ok |-> FALSE]
    ELSE
        LET q    == Literals(pattern)
            bol  == q # <<>> /\ Head(q) = "^"
            q1   == IF bol THEN Tail(q) ELSE q
            eol  == q1 # <<>> /\ q1[Len(q1)] = "$"
            body == IF eol THEN SubSeq(q1, 1, Len(q1) - 1) ELSE q1
        IN  [ok |-> TRUE, bol |-> bol, eol |-> eol, body |-> Lower(body)]

\* regex.search(s) is not None, for a compiled regex
ReSearch(regex, s) ==
    LET t == Lower(s)
        n == Len(regex.body)
    IN  IF regex.bol /\ regex.eol THEN t = regex.body
        ELSE IF regex.bol THEN StartsWith(t, regex.body)
        ELSE IF regex.eol THEN EndsWith(t, regex.body)
        ELSE \E k \in 1..(Len(t) + 1) :
                k + n - 1 <= Len(t) /\ SubSeq(t, k, k + n - 1) = regex.body

(***************************************************************************)
(* MarkdownCleanupOptions: a dataclass with no __post_init__, so the       *)
(* constructor stores its arguments and validates nothing.                 *)
(***************************************************************************)
MarkdownCleanupOptions(patterns, domains, combine, reflow) ==
    [ok |-> TRUE,
     value |-> [remove_patterns |-> patterns,
                auto_remove_domain_headings |-> domains,
                combine_numbered_headings |-> combine,
                reflow_paragraphs |-> reflow]]

(***************************************************************************)
(* The stages that are one pass without carried state.                     *)
(***************************************************************************)
\* the list comprehension of _remove_pattern_matches: every pattern is compiled
\* before any line is looked at
CompileAll(patterns) == [k \in 1..Len(patterns) |-> ReCompile(patterns[k])]

\* the filter loop searching the line as it stands, not its stripped content
RECURSIVE DropMatchingUntrimmed(_, _)
DropMatchingUntrimmed(ls, compiled) ==
    IF ls = <<>> THEN <<>>
    ELSE
        IF \E k \in 1..Len(compiled) : ReSearch(compiled[k], Head(ls))
        THEN DropMatchingUntrimmed(Tail(ls), compiled)
        ELSE <<Head(ls)>> \o DropMatchingUntrimmed(Tail(ls), compiled)

\* the filter loop of _remove_pattern_matches
RECURSIVE DropMatching(_, _)
DropMatching(ls, compiled) ==
    IF ls = <<>> THEN <<>>
    ELSE
        LET stripped == Strip(Head(ls)) IN
        IF \E k \in 1..Len(compiled) : ReSearch(compiled[k], stripped)
        THEN DropMatching(Tail(ls), compiled)
        ELSE <<Head(ls)>> \o DropMatching(Tail(ls), compiled)

\* _remove_pattern_matches(lines, patterns): the lines kept, or the re.error
RemovePatternMatches(ls, patterns) ==
    LET compiled == CompileAll(patterns) IN
    IF \E k \in 1..Len(compiled) : ~compiled[k].ok
    THEN [raised |-> "re.error", lines |-> <<>>]
    ELSE IF compiled = <<>> THEN [raised |-> "none", lines |-> ls]
    ELSE [raised |-> "none", lines |-> DropMatching(ls, compiled)]

\* _iter_domain_heading_text(lines)
RECURSIVE IterDomainHeadingText(_)
IterDomainHeadingText(ls) ==
    IF ls = <<>> THEN <<>>
    ELSE
        LET match == DomainHeadingMatch(Strip(Head(ls))) IN
        IF match.ok
        THEN <<Lower(match.text)>> \o IterDomainHeadingText(Tail(ls))
        ELSE IterDomainHeadingText(Tail(ls))

\* the Counter filled by _remove_repeated_domain_headings
DomainCounts(ls) ==
    LET texts == IterDomainHeadingText(ls) IN
    [t \in {texts[k] : k \in 1..Len(texts)} |->
        Cardinality({k \in 1..Len(texts) : texts[k] = t})]

\* repeated with the threshold off by one
RepeatedMoreThanTwice(ls) ==
    LET counts == DomainCounts(ls) IN {t \in DOMAIN counts : counts[t] > 2}

\* the set repeated of _remove_repeated_domain_headings
Repeated(ls) ==
    LET counts == DomainCounts(ls) IN {t \in DOMAIN counts : counts[t] > 1}

\* the second loop dropping every domain-shaped heading
RECURSIVE DropEveryDomainHeading(_, _)
DropEveryDomainHeading(ls, repeated) ==
    IF ls = <<>> THEN <<>>
    ELSE
        IF DomainHeadingMatch(Strip(Head(ls))).ok
        THEN DropEveryDomainHeading(Tail(ls), repeated)
        ELSE <<Head(ls)>> \o DropEveryDomainHeading(Tail(ls), repeated)

\* the second loop of _remove_repeated_domain_headings
RECURSIVE DropRepeated(_, _)
DropRepeated(ls, repeated) ==
    IF ls = <<>> THEN <<>>
    ELSE
        LET match == DomainHeadingMatch(Strip(Head(ls))) IN
        IF match.ok /\ Lower(match.text) \in repeated
        THEN DropRepeated(Tail(ls), repeated)
        ELSE <<Head(ls)>> \o DropRepeated(Tail(ls), repeated)

\* _remove_repeated_domain_headings(lines)
RemoveRepeatedDomainHeadings(ls) ==
    LET repeated == Repeated(ls) IN
    IF repeated = {} THEN ls ELSE DropRepeated(ls, repeated)

\* _is_structure_line(stripped, raw_line)
ListItemStart(stripped) ==
    LET d == LeadingDigits(stripped)
        m == IF stripped # <<>> /\ Head(stripped) \in {"*", "-", "+"} THEN 1
             ELSE IF d > 0 /\ Len(stripped) > d /\ stripped[d + 1] = "." THEN d + 1
             ELSE 0
    IN  m > 0 /\ Len(stripped) > m /\ IsSpace(stripped[m + 1])

ThematicBreak(stripped) ==
    /\ Len(stripped) >= 3
    /\ \/ \A k \in 1..Len(stripped) : stripped[k] = "="
       \/ \A k \in 1..Len(stripped) : stripped[k] = "-"

\* the tests of _is_structure_line without the one for table rows
IsStructureLineWithoutTables(stripped, raw_line) ==
    IF stripped = <<>> THEN FALSE
    ELSE IF Head(stripped) \in {HASH, ">"} THEN TRUE
    ELSE IF ListItemStart(stripped) THEN TRUE
    ELSE IF StartsWith(raw_line, <<" ", " ", " ", " ">>) \/ StartsWith(raw_line, <<"\t">>)
         THEN TRUE
    ELSE IF StartsWith(stripped, <<"<", "!", "-", "-">>)
            /\ EndsWith(stripped, <<"-", "-", ">">>) THEN TRUE
    ELSE ThematicBreak(stripped)

IsStructureLine(stripped, raw_line) ==
    IF stripped = <<>> THEN FALSE
    ELSE IF Head(stripped) \in {HASH, ">"} THEN TRUE
    ELSE IF ListItemStart(stripped) THEN TRUE
    ELSE IF StartsWith(raw_line, <<" ", " ", " ", " ">>) \/ StartsWith(raw_line, <<"\t">>)
         THEN TRUE
    ELSE IF Head(stripped) = "|" /\ CountChar(stripped, "|") >= 2 THEN TRUE
    ELSE IF StartsWith(stripped, <<"<", "!", "-", "-">>)
            /\ EndsWith(stripped, <<"-", "-", ">">>) THEN TRUE
    ELSE ThematicBreak(stripped)

\* the loop body without the test that the next line starts with "#"
SpacedAtAnyNext(ls, k) ==
    LET line == ls[k + 1] IN
    IF ~StartsWith(Strip(line), <<HASH>>) THEN <<line>>
    ELSE IF ~(k + 1 < Len(ls)) THEN <<line>>
    ELSE IF Strip(ls[k + 2]) = <<>> THEN <<line>>
    ELSE <<line, <<>> >>

\* the body of the loop of _ensure_heading_spacing for the line at 0-based index k
SpacedAt(ls, k) ==
    LET line == ls[k + 1] IN
    IF ~StartsWith(Strip(line), <<HASH>>) THEN <<line>>
    ELSE IF ~(k + 1 < Len(ls)) THEN <<line>>
    ELSE
        LET next_line == ls[k + 2] IN
        IF Strip(next_line) = <<>> \/ StartsWith(Strip(next_line), <<HASH>>)
        THEN <<line>>
        ELSE <<line, <<>> >>

RECURSIVE SpacedFrom(_, _)
SpacedFrom(ls, k) ==
    IF k >= Len(ls) THEN <<>> ELSE SpacedAt(ls, k) \o SpacedFrom(ls, k + 1)

\* _ensure_heading_spacing(lines)
EnsureHeadingSpacing(ls) == SpacedFrom(ls, 0)

\* the loop of _squash_blank_lines with the flag cleared when a line is dropped
RECURSIVE SquashFromForgetting(_, _)
SquashFromForgetting(ls, previous_blank) ==
    IF ls = <<>> THEN <<>>
    ELSE
        LET is_blank == Strip(Head(ls)) = <<>> IN
        IF is_blank /\ previous_blank
        THEN SquashFromForgetting(Tail(ls), FALSE)
        ELSE <<Head(ls)>> \o SquashFromForgetting(Tail(ls), is_blank)

\* the loop of _squash_blank_lines, entered with the flag previous_blank
RECURSIVE SquashFrom(_, _)
SquashFrom(ls, previous_blank) ==
    IF ls = <<>> THEN <<>>
    ELSE
        LET is_blank == Strip(Head(ls)) = <<>> IN
        IF is_blank /\ previous_blank
        THEN SquashFrom(Tail(ls), previous_blank)
        ELSE <<Head(ls)>> \o SquashFrom(Tail(ls), is_blank)

\* list(_squash_blank_lines(lines))
SquashBlankLines(ls) == SquashFrom(ls, FALSE)

(***************************************************************************)
(* _combine_numbered_headings: the parts of one loop iteration.            *)
(***************************************************************************)
\* i + 1 < len(lines)
HasNext(ls, k) == k + 1 < Len(ls)

\* the merge conditions without the comparison of the two levels
MergeAppliesAtAnyLevel(ls, k) ==
    LET match == HeadingMatch(Strip(ls[k + 1])) IN
    /\ match.ok
    /\ NumericMatch(Strip(match.text)).ok
    /\ HasNext(ls, k)
    /\ LET next_match == HeadingMatch(Strip(ls[k + 2])) IN
       /\ next_match.ok
       /\ ~NumericMatch(Strip(next_match.text)).ok

\* the nested conditions under which the iteration at 0-based index k merges
MergeApplies(ls, k) ==
    LET match == HeadingMatch(Strip(ls[k + 1])) IN
    /\ match.ok
    /\ NumericMatch(Strip(match.text)).ok
    /\ HasNext(ls, k)
    /\ LET next_match == HeadingMatch(Strip(ls[k + 2])) IN
       /\ next_match.ok
       /\ next_match.level = match.level
       /\ ~NumericMatch(Strip(next_match.text)).ok

\* separator = numeric_match.group(2) or "."
Separator(numeric_match) ==
    Strip(IF numeric_match.punct # <<>> THEN numeric_match.punct ELSE <<".">>)

\* space without the test of the title's first character
SpacerAlways(next_text) == <<" ">>

\* the conditional expression assigned to space
Spacer(next_text) ==
    IF next_text = <<>> \/ Head(next_text) \in {".", ")", "-", ENDASH}
    THEN <<>>
    ELSE <<" ">>

\* the f-string assigned to merged
Merged(ls, k) ==
    LET match         == HeadingMatch(Strip(ls[k + 1]))
        numeric_match == NumericMatch(Strip(match.text))
        next_text     == Strip(HeadingMatch(Strip(ls[k + 2])).text)
    IN  RStrip(Hashes(match.level) \o <<" ">> \o numeric_match.number
               \o Separator(numeric_match) \o Spacer(next_text) \o next_text)

(***************************************************************************)
(* Inputs.  The caller may pass any text; the documents explored are the   *)
(* sequences of at most MaxLines lines of one of six vocabularies, with   *)
(* and without a final newline.                                            *)
(***************************************************************************)
MaxLines == 4
MaxCalls == 2

HeadingLines ==
    {<<"#", "#", " ", "2">>, <<"#", "#", " ", "1", ")">>, <<"#", "#", " ", "H", "o", "p", "e">>, <<"#", " ", "H", "o", "p", "e">>,
     <<"#", "#", " ", "-", "x">>, <<"#", "#", " ", ENDASH, "x">>, <<"t", "e", "x", "t">>, <<>>}

DomainLines ==
    {<<"#", "#", " ", "a", ".", "b">>, <<"#", " ", "A", ".", "B">>, <<"#", "#", " ", "c", ".", "d">>,
     <<"#", "#", " ", "T">>, <<"x">>}

FenceLines ==
    {<<BACKTICK, BACKTICK, BACKTICK>>, <<"#", " ", "T">>, <<"x", " ", " ">>, <<"y">>, <<" ">>, <<>>}

NoiseLines ==
    {<<"N", "o", "i", "s", "e", " ", "l", "i", "n", "e">>,
     <<" ", "n", "o", "i", "s", "e", " ", "L", "I", "N", "E">>,
     <<"A", "c", "t", "u", "a", "l", " ", "c", "o", "n", "t", "e", "n", "t">>,
     <<"#", "#", " ", "a", ".", "b">>,
     <<"#", " ", "A", ".", "B">>,
     <<"#", "#", " ", "2">>}

NoisePatterns ==
    {<<<<"^", "N", "o", "i", "s", "e", " ", "l", "i", "n", "e", "$">>>>,
     <<<<"(">>>>,
     <<<<"(", "n", ")">>>>,
     <<<<"^", "N", "o", "i", "s", "e", " ", "l", "i", "n", "e", "$">>, <<"^", "#", " ">>>>}

\* one line of each kind _is_structure_line tells apart, and prose around them
StructureLines ==
    {<<"F", "i", "r", "s", "t">>,
     <<"s", "e", "n", "t", "e", "n", "c", "e">>,
     <<" ", "x", " ">>,
     <<"#">>,
     <<"#", " ", "T", " ", " ">>,
     <<"-", " ", "i", "t", "e", "m">>,
     <<"|", " ", "a", " ", "|">>,
     <<">", " ", "q">>,
     <<"-", "-", "-">>,
     <<"<", "!", "-", "-", "c", "-", "-", ">">>,
     <<" ", " ", " ", " ", "c", "o", "d", "e">>,
     <<BACKTICK, BACKTICK, BACKTICK>>,
     <<>>}

\* a numbered heading, a title and a line that is one "#" and nothing else
LoneHashLines ==
    {<<"#", "#", " ", "2">>, <<"#", "#", " ", "H", "o", "p", "e">>, <<"#">>}

RECURSIVE SeqsUpTo(_, _)
SeqsUpTo(S, n) ==
    IF n = 0 THEN {<<>>}
    ELSE LET shorter == SeqsUpTo(S, n - 1) IN
         shorter \cup {Append(ls, x) : ls \in shorter, x \in S}

Document(ls, nl) == JoinNL(ls) \o (IF nl THEN <<NL>> ELSE <<>>)

Documents(S) == {Document(ls, nl) : ls \in SeqsUpTo(S, MaxLines), nl \in BOOLEAN}

ShorterDocuments(S, nls) ==
    {Document(ls, nl) : ls \in SeqsUpTo(S, MaxLines - 1), nl \in nls}

\* the arguments of MarkdownCleanupOptions(...) explored with each vocabulary
\* the Markdown of the documents handed to prepare_response
ResponseLines ==
    {<<"F", "i", "r", "s", "t">>,
     <<"s", "e", "n", "t", "e", "n", "c", "e">>,
     <<"N", "o", "i", "s", "e", " ", "l", "i", "n", "e">>}

ExportedDocuments ==
    {[has_md_content |-> TRUE, md_content |-> md, filename |-> "a.pdf", has_model_copy |-> c] :
        md \in ShorterDocuments(ResponseLines, {FALSE}), c \in BOOLEAN}
    \cup {[has_md_content |-> FALSE, md_content |-> <<>>, filename |-> "a.pdf",
           has_model_copy |-> TRUE]}

TaskResults ==
    {[kind |-> "export", content |-> d, status |-> "success", processing_time |-> "1.5",
      timings |-> "timings", errors |-> <<"e1">>] : d \in ExportedDocuments}
    \cup {[kind |-> "zip", content |-> "zip bytes", processing_time |-> "1.5"],
          [kind |-> "remote", processing_time |-> "1.5", num_converted |-> 3,
           num_succeeded |-> 2, num_failed |-> 1],
          [kind |-> "chunked", chunks |-> <<"c1", "c2">>, documents |-> <<"d1">>,
           processing_time |-> "1.5"]}

SettingsOptions ==
    {<< <<>>, <<TRUE, TRUE, TRUE>> >>,
     << <<>>, <<FALSE, FALSE, FALSE>> >>,
     << <<<<"^", "N", "o", "i", "s", "e", " ", "l", "i", "n", "e", "$">>>>, <<TRUE, TRUE, TRUE>> >>,
     << <<<<"(">>>>, <<TRUE, TRUE, TRUE>> >>}

SettingsValues ==
    {[markdown_cleanup_enabled |-> e,
      markdown_cleanup_remove_patterns |-> o[1],
      markdown_cleanup_auto_remove_domains |-> o[2][1],
      markdown_cleanup_combine_headings |-> o[2][2],
      markdown_cleanup_reflow_paragraphs |-> o[2][3],
      single_use_results |-> su] :
        e \in BOOLEAN, o \in SettingsOptions, su \in BOOLEAN}

\* the texts and options of two invocations that run at the same time
PairLines ==
    {<<"F", "i", "r", "s", "t">>,
     <<"s", "e", "n", "t", "e", "n", "c", "e">>,
     <<"#", "#", " ", "2">>}

PairInputs ==
    {Document(ls, FALSE) : ls \in SeqsUpTo(PairLines, MaxLines - 2)}
        \X {<<>>} \X {<<TRUE, TRUE, TRUE>>, <<FALSE, FALSE, FALSE>>}

Inputs ==
    (Documents(HeadingLines) \X {<<>>} \X {<<TRUE, TRUE, TRUE>>})
    \cup (Documents(DomainLines) \X {<<>>} \X {<<TRUE, TRUE, TRUE>>, <<TRUE, FALSE, FALSE>>})
    \cup (Documents(FenceLines) \X {<<>>} \X {<<TRUE, TRUE, TRUE>>, <<FALSE, FALSE, FALSE>>})
    \cup (ShorterDocuments(NoiseLines, BOOLEAN) \X NoisePatterns \X {<<TRUE, TRUE, TRUE>>})
    \cup (ShorterDocuments(StructureLines, {FALSE}) \X {<<>>} \X {<<TRUE, TRUE, TRUE>>})
    \cup (ShorterDocuments(LoneHashLines, {FALSE}) \X {<<>>} \X {<<TRUE, TRUE, TRUE>>})

DefaultOptions == MarkdownCleanupOptions(<<>>, TRUE, TRUE, TRUE).value

(***************************************************************************)
(* What prepare_response is given and what it returns, before any call.    *)
(***************************************************************************)
NoTask == [kind |-> "none"]

NoResponse == [type |-> "none"]

UnreadSettings ==
    [markdown_cleanup_enabled |-> FALSE,
     markdown_cleanup_remove_patterns |-> <<>>,
     markdown_cleanup_auto_remove_domains |-> TRUE,
     markdown_cleanup_combine_headings |-> TRUE,
     markdown_cleanup_reflow_paragraphs |-> TRUE,
     single_use_results |-> FALSE]

\* the locals of an invocation of cleanup_markdown that has not started
IdleFrame ==
    [markdown |-> <<>>, options |-> DefaultOptions, pc |-> "idle", lines |-> <<>>,
     original_trailing_newline |-> FALSE, i |-> 0, combined |-> <<>>, pos |-> 0,
     reflowed |-> <<>>, paragraph |-> <<>>, in_code_block |-> FALSE,
     squashed |-> <<>>, cleaned |-> <<>>, raised |-> "none"]

(***************************************************************************)
(* The subscriber bookkeeping of WebsocketNotifier (websocket_notifier.py) *)
(* and of the task_status_ws handler (app.py), before any call.  A set of  *)
(* websockets is an object: add_task puts a new one in the dict, and a     *)
(* loop that iterates over a set keeps the object it started with.         *)
(***************************************************************************)
TaskIds == {"t1", "t2"}

WebSockets == {"ws1", "ws2"}

\* the set objects add_task creates in one run
MaxSets == 2

\* self.task_subscribers = {} (websocket_notifier.py line 17)
NoSubscribers == [t \in {} |-> 0]

\* no iteration under way
NoIter == [set |-> 0, si_used |-> 0, order |-> <<>>, si_pos |-> 0, over |-> {}]

\* a coroutine of the notifier that is not running; raised is how its last
\* run ended
IdleCoroutine ==
    [pc |-> "idle", task_id |-> "none", it |-> NoIter, websocket |-> "none",
     completed |-> FALSE, raised |-> "none"]

\* a websocket nobody has connected yet
NoHandler == [pc |-> "none", task_id |-> "none", raised |-> "none"]

(***************************************************************************)
(* The state machine.                                                      *)
(***************************************************************************)
Init ==
    /\ markdown = <<>>
    /\ options = DefaultOptions
    /\ pc = "idle"
    /\ lines = <<>>
    /\ original_trailing_newline = FALSE
    /\ i = 0
    /\ combined = <<>>
    /\ pos = 0
    /\ reflowed = <<>>
    /\ paragraph = <<>>
    /\ in_code_block = FALSE
    /\ squashed = <<>>
    /\ cleaned = <<>>
    /\ raised = "none"
    /\ calls = 0
    /\ task_result = NoTask
    /\ settings = UnreadSettings
    /\ response = NoResponse
    /\ background_tasks = <<>>
    /\ other = IdleFrame
    /\ task_subscribers = NoSubscribers
    /\ set_objects = <<>>
    /\ task_status_ws = [w \in WebSockets |-> NoHandler]
    /\ remove_task = IdleCoroutine
    /\ notify_task_subscribers = IdleCoroutine

helperVars == <<i, combined, pos, reflowed, paragraph, in_code_block>>

outerVars == <<task_result, settings, response, background_tasks, other>>

notifierVars == <<task_subscribers, set_objects, task_status_ws, remove_task,
                  notify_task_subscribers>>

\* Enter without the early return of lines 56-57
EnterWithoutEarlyReturn(md, opts) ==
    /\ markdown' = md
    /\ options' = opts
    /\ calls' = calls + 1
    /\ raised' = "none"
    /\ squashed' = <<>>
    /\ i' = 0 /\ combined' = <<>>
    /\ pos' = 0 /\ reflowed' = <<>> /\ paragraph' = <<>> /\ in_code_block' = FALSE
    /\ pc' = "patterns"
    /\ cleaned' = <<>>
    /\ lines' = SplitLines(md)
    /\ original_trailing_newline' = EndsWith(md, <<NL>>)

\* cleanup_markdown(md, opts) up to the first stage: the early return for an
\* empty text, else the line split and the trailing-newline flag
Enter(md, opts) ==
    /\ markdown' = md
    /\ options' = opts
    /\ calls' = calls + 1
    /\ raised' = "none"
    /\ squashed' = <<>>
    /\ i' = 0 /\ combined' = <<>>
    /\ pos' = 0 /\ reflowed' = <<>> /\ paragraph' = <<>> /\ in_code_block' = FALSE
    /\ IF md = <<>>
       THEN /\ pc' = "done"
            /\ cleaned' = md
            /\ lines' = <<>>
            /\ original_trailing_newline' = FALSE
       ELSE /\ pc' = "patterns"
            /\ cleaned' = <<>>
            /\ lines' = SplitLines(md)
            /\ original_trailing_newline' = EndsWith(md, <<NL>>)

\* a direct caller builds an options value and calls cleanup_markdown
Call ==
    /\ pc = "idle"
    /\ \E in \in Inputs :
          LET built == MarkdownCleanupOptions(in[2], in[3][1], in[3][2], in[3][3]) IN
          IF built.ok
          THEN Enter(in[1], built.value)
          ELSE /\ pc' = "config_error"
               /\ UNCHANGED <<markdown, options, lines, original_trailing_newline,
                              helperVars, squashed, cleaned, raised, calls>>
    /\ UNCHANGED outerVars
    /\ UNCHANGED notifierVars

\* the caller passes the text it got back through cleanup_markdown again, with
\* the same options
CallAgain ==
    /\ pc = "done"
    /\ task_result = NoTask
    /\ calls < MaxCalls
    /\ Enter(cleaned, options)
    /\ UNCHANGED outerVars
    /\ UNCHANGED notifierVars

\* lines 62-63
StagePatterns ==
    /\ pc = "patterns"
    /\ IF options.remove_patterns # <<>>
       THEN LET got == RemovePatternMatches(lines, options.remove_patterns) IN
            IF got.raised # "none"
            THEN /\ raised' = got.raised
                 /\ pc' = "raised"
                 /\ UNCHANGED lines
            ELSE /\ lines' = got.lines
                 /\ pc' = "domains"
                 /\ UNCHANGED raised
       ELSE /\ pc' = "domains"
            /\ UNCHANGED <<lines, raised>>
    /\ UNCHANGED <<markdown, options, original_trailing_newline, helperVars,
                   squashed, cleaned, calls>>
    /\ UNCHANGED outerVars
    /\ UNCHANGED notifierVars

\* lines 65-66
StageDomains ==
    /\ pc = "domains"
    /\ lines' = IF options.auto_remove_domain_headings
                THEN RemoveRepeatedDomainHeadings(lines)
                ELSE lines
    /\ pc' = "combine"
    /\ UNCHANGED <<markdown, options, original_trailing_newline, helperVars,
                   squashed, cleaned, raised, calls>>
    /\ UNCHANGED outerVars
    /\ UNCHANGED notifierVars

\* line 68, the flag is off
CombineSkip ==
    /\ pc = "combine"
    /\ ~options.combine_numbered_headings
    /\ pc' = "reflow"
    /\ UNCHANGED <<markdown, options, lines, original_trailing_newline, helperVars,
                   squashed, cleaned, raised, calls>>
    /\ UNCHANGED outerVars
    /\ UNCHANGED notifierVars

\* the iteration with the advance by two left out of the merge branch
CombineStepMergeWithoutAdvance ==
    /\ pc = "combine"
    /\ options.combine_numbered_headings
    /\ i < Len(lines)
    /\ IF MergeApplies(lines, i)
       THEN /\ combined' = Append(combined, Merged(lines, i))
            /\ i' = i
       ELSE /\ combined' = Append(combined, lines[i + 1])
            /\ i' = i + 1
    /\ UNCHANGED <<markdown, options, pc, lines, original_trailing_newline,
                   pos, reflowed, paragraph, in_code_block,
                   squashed, cleaned, raised, calls>>
    /\ UNCHANGED outerVars
    /\ UNCHANGED notifierVars

\* one iteration of the while loop of _combine_numbered_headings
CombineStep ==
    /\ pc = "combine"
    /\ options.combine_numbered_headings
    /\ i < Len(lines)
    /\ IF MergeApplies(lines, i)
       THEN /\ combined' = Append(combined, Merged(lines, i))
            /\ i' = i + 2
       ELSE /\ combined' = Append(combined, lines[i + 1])
            /\ i' = i + 1
    /\ UNCHANGED <<markdown, options, pc, lines, original_trailing_newline,
                   pos, reflowed, paragraph, in_code_block,
                   squashed, cleaned, raised, calls>>
    /\ UNCHANGED outerVars
    /\ UNCHANGED notifierVars

\* the loop of _combine_numbered_headings ends: return combined (line 69)
CombineReturn ==
    /\ pc = "combine"
    /\ options.combine_numbered_headings
    /\ ~(i < Len(lines))
    /\ lines' = combined
    /\ i' = 0
    /\ combined' = <<>>
    /\ pc' = "reflow"
    /\ UNCHANGED <<markdown, options, original_trailing_newline,
                   pos, reflowed, paragraph, in_code_block,
                   squashed, cleaned, raised, calls>>
    /\ UNCHANGED outerVars
    /\ UNCHANGED notifierVars

\* flush_paragraph(): the lines emitted and the buffer left
Flushed(out, buffer) ==
    IF buffer # <<>> THEN Append(out, JoinSpace(buffer)) ELSE out

\* line 71, the flag is off
ReflowSkip ==
    /\ pc = "reflow"
    /\ ~options.reflow_paragraphs
    /\ pc' = "spacing"
    /\ UNCHANGED <<markdown, options, lines, original_trailing_newline, helperVars,
                   squashed, cleaned, raised, calls>>
    /\ UNCHANGED outerVars
    /\ UNCHANGED notifierVars

\* one iteration of the for loop of _reflow_paragraphs
ReflowStep ==
    /\ pc = "reflow"
    /\ options.reflow_paragraphs
    /\ pos < Len(lines)
    /\ LET raw_line == lines[pos + 1]
           line     == RStrip(raw_line)
           stripped == Strip(line)
       IN  IF StartsWith(stripped, <<BACKTICK, BACKTICK, BACKTICK>>)
           THEN /\ reflowed' = Append(Flushed(reflowed, paragraph), line)
                /\ paragraph' = <<>>
                /\ in_code_block' = ~in_code_block
           ELSE IF in_code_block
           THEN /\ reflowed' = Append(reflowed, line)
                /\ UNCHANGED <<paragraph, in_code_block>>
           ELSE IF IsStructureLine(stripped, raw_line)
           THEN /\ reflowed' = Append(Flushed(reflowed, paragraph), line)
                /\ paragraph' = <<>>
                /\ UNCHANGED in_code_block
           ELSE IF stripped = <<>>
           THEN /\ reflowed' = Append(Flushed(reflowed, paragraph), <<>>)
                /\ paragraph' = <<>>
                /\ UNCHANGED in_code_block
           ELSE /\ paragraph' = Append(paragraph, stripped)
                /\ UNCHANGED <<reflowed, in_code_block>>
    /\ pos' = pos + 1
    /\ UNCHANGED <<markdown, options, pc, lines, original_trailing_newline,
                   i, combined, squashed, cleaned, raised, calls>>
    /\ UNCHANGED outerVars
    /\ UNCHANGED notifierVars

\* the for loop of _reflow_paragraphs ends: the last flush and the return (line 72)
ReflowReturn ==
    /\ pc = "reflow"
    /\ options.reflow_paragraphs
    /\ ~(pos < Len(lines))
    /\ lines' = Flushed(reflowed, paragraph)
    /\ pos' = 0
    /\ reflowed' = <<>>
    /\ paragraph' = <<>>
    /\ in_code_block' = FALSE
    /\ pc' = "spacing"
    /\ UNCHANGED <<markdown, options, original_trailing_newline, i, combined,
                   squashed, cleaned, raised, calls>>
    /\ UNCHANGED outerVars
    /\ UNCHANGED notifierVars

\* line 74
StageSpacing ==
    /\ pc = "spacing"
    /\ lines' = EnsureHeadingSpacing(lines)
    /\ pc' = "squash"
    /\ UNCHANGED <<markdown, options, original_trailing_newline, helperVars,
                   squashed, cleaned, raised, calls>>
    /\ UNCHANGED outerVars
    /\ UNCHANGED notifierVars

\* line 76, the argument of join
StageSquash ==
    /\ pc = "squash"
    /\ squashed' = SquashBlankLines(lines)
    /\ pc' = "join"
    /\ UNCHANGED <<markdown, options, lines, original_trailing_newline, helperVars,
                   cleaned, raised, calls>>
    /\ UNCHANGED outerVars
    /\ UNCHANGED notifierVars

\* lines 76-79: the join, the trailing newline and the return
Joined(ls, trailing) ==
    LET text == JoinNL(ls) IN
    IF trailing /\ text # <<>> /\ ~EndsWith(text, <<NL>>)
    THEN text \o <<NL>>
    ELSE text

StageJoin ==
    /\ pc = "join"
    /\ cleaned' = Joined(squashed, original_trailing_newline)
    /\ pc' = "done"
    /\ UNCHANGED <<markdown, options, lines, original_trailing_newline, helperVars,
                   squashed, raised, calls>>
    /\ UNCHANGED outerVars
    /\ UNCHANGED notifierVars

(***************************************************************************)
(* prepare_response (response_preparation.py).                             *)
(***************************************************************************)
\* lines 50-55
OptionsFrom(st) ==
    MarkdownCleanupOptions(st.markdown_cleanup_remove_patterns,
                           st.markdown_cleanup_auto_remove_domains,
                           st.markdown_cleanup_combine_headings,
                           st.markdown_cleanup_reflow_paragraphs)

\* the test of lines 43-49 without the setting that switches cleanup on
WantsCleanupWhateverTheSetting(tr, st) ==
    /\ tr.kind = "export"
    /\ tr.content.has_md_content
    /\ tr.content.md_content # <<>>

\* lines 43-49: an export result, cleanup switched on, a Markdown text that is
\* there and not empty
WantsCleanup(tr, st) ==
    /\ tr.kind = "export"
    /\ st.markdown_cleanup_enabled
    /\ tr.content.has_md_content
    /\ tr.content.md_content # <<>>

\* lines 64-91: the response built for a result, document being the local of
\* that name
ResponseFor(tr, document) ==
    IF tr.kind = "export"
    THEN [type |-> "ConvertDocumentResponse", document |-> document, status |-> tr.status,
          processing_time |-> tr.processing_time, timings |-> tr.timings,
          errors |-> tr.errors]
    ELSE IF tr.kind = "zip"
    THEN [type |-> "Response", content |-> tr.content, media_type |-> "application/zip"]
    ELSE IF tr.kind = "remote"
    THEN [type |-> "PresignedUrlConvertDocumentResponse",
          processing_time |-> tr.processing_time, num_converted |-> tr.num_converted,
          num_succeeded |-> tr.num_succeeded, num_failed |-> tr.num_failed]
    ELSE [type |-> "ChunkDocumentResponse", chunks |-> tr.chunks,
          documents |-> tr.documents, processing_time |-> tr.processing_time]

\* lines 95-104
Scheduled(st, tasks) ==
    IF st.single_use_results THEN Append(tasks, "_remove_task") ELSE tasks

\* prepare_response up to the call of cleanup_markdown (line 57) or, when there
\* is nothing to clean, to its return
PrepareResponse ==
    /\ pc = "idle"
    /\ \E tr \in TaskResults, st \in SettingsValues :
          /\ task_result' = tr
          /\ settings' = st
          /\ IF WantsCleanup(tr, st)
             THEN /\ Enter(tr.content.md_content, OptionsFrom(st).value)
                  /\ UNCHANGED <<response, background_tasks>>
             ELSE /\ response' = ResponseFor(tr, tr.content)
                  /\ background_tasks' = Scheduled(st, background_tasks)
                  /\ pc' = "responded"
                  /\ UNCHANGED <<markdown, options, lines, original_trailing_newline,
                                 helperVars, squashed, cleaned, raised, calls>>
    /\ UNCHANGED other
    /\ UNCHANGED notifierVars

\* prepare_response from the return of cleanup_markdown on (lines 58-106)
Respond ==
    /\ pc = "done"
    /\ task_result # NoTask
    /\ LET document == task_result.content
           replaced == [document EXCEPT !.md_content = cleaned]
       IN  IF cleaned # document.md_content
           THEN /\ response' = ResponseFor(task_result, replaced)
                /\ task_result' = IF document.has_model_copy THEN task_result
                                  ELSE [task_result EXCEPT !.content = replaced]
           ELSE /\ response' = ResponseFor(task_result, document)
                /\ UNCHANGED task_result
    /\ background_tasks' = Scheduled(settings, background_tasks)
    /\ pc' = "responded"
    /\ UNCHANGED <<markdown, options, lines, original_trailing_newline, helperVars,
                   squashed, cleaned, raised, calls, settings, other>>
    /\ UNCHANGED notifierVars

(***************************************************************************)
(* Two invocations of cleanup_markdown at the same time: each has its own  *)
(* locals (lines 59-76, 123-124, 156-158); the module-level names (lines   *)
(* 22-27) are compiled patterns that no line assigns to.                   *)
(***************************************************************************)
\* the locals of the invocation that is running
Frame ==
    [markdown |-> markdown, options |-> options, pc |-> pc, lines |-> lines,
     original_trailing_newline |-> original_trailing_newline, i |-> i,
     combined |-> combined, pos |-> pos, reflowed |-> reflowed, paragraph |-> paragraph,
     in_code_block |-> in_code_block, squashed |-> squashed, cleaned |-> cleaned,
     raised |-> raised]

Resume(frame) ==
    /\ markdown' = frame.markdown
    /\ options' = frame.options
    /\ pc' = frame.pc
    /\ lines' = frame.lines
    /\ original_trailing_newline' = frame.original_trailing_newline
    /\ i' = frame.i
    /\ combined' = frame.combined
    /\ pos' = frame.pos
    /\ reflowed' = frame.reflowed
    /\ paragraph' = frame.paragraph
    /\ in_code_block' = frame.in_code_block
    /\ squashed' = frame.squashed
    /\ cleaned' = frame.cleaned
    /\ raised' = frame.raised

\* the switch with the list paragraph kept in one place for both invocations
SwitchSharingParagraph ==
    /\ other' = [Frame EXCEPT !.paragraph = other.paragraph]
    /\ Resume([other EXCEPT !.paragraph = paragraph])
    /\ UNCHANGED <<calls, task_result, settings, response, background_tasks>>
    /\ UNCHANGED notifierVars

\* the running invocation is suspended and the other one goes on
Switch ==
    /\ other' = Frame
    /\ Resume(other)
    /\ UNCHANGED <<calls, task_result, settings, response, background_tasks>>
    /\ UNCHANGED notifierVars

\* one of the two callers calls cleanup_markdown
CallPair ==
    /\ pc = "idle"
    /\ \E in \in PairInputs :
          Enter(in[1], MarkdownCleanupOptions(in[2], in[3][1], in[3][2], in[3][3]).value)
    /\ UNCHANGED outerVars
    /\ UNCHANGED notifierVars

Next ==
    \/ Call
    \/ CallAgain
    \/ StagePatterns
    \/ StageDomains
    \/ CombineSkip
    \/ CombineStep
    \/ CombineReturn
    \/ ReflowSkip
    \/ ReflowStep
    \/ ReflowReturn
    \/ StageSpacing
    \/ StageSquash
    \/ StageJoin
    \/ PrepareResponse
    \/ Respond

Spec == Init /\ [][Next]_vars

NextPair ==
    \/ CallPair
    \/ Switch
    \/ StagePatterns
    \/ StageDomains
    \/ CombineSkip
    \/ CombineStep
    \/ CombineReturn
    \/ ReflowSkip
    \/ ReflowStep
    \/ ReflowReturn
    \/ StageSpacing
    \/ StageSquash
    \/ StageJoin

SpecPair == Init /\ [][NextPair]_vars

(***************************************************************************)
(* WebsocketNotifier (websocket_notifier.py) and the task_status_ws        *)
(* handler (app.py).  All of them run on one event loop: a coroutine runs  *)
(* without interruption from one await to the next, and at an await any    *)
(* other coroutine may run.  One remove_task, one notify_task_subscribers  *)
(* and one handler per websocket are under way at a time.                   *)
(***************************************************************************)
\* everything the pipeline and prepare_response keep
pipelineVars == <<markdown, options, pc, lines, original_trailing_newline, helperVars,
                  squashed, cleaned, raised, calls, outerVars>>

\* d[k] = v
Put(d, k, v) == [x \in DOMAIN d \cup {k} |-> IF x = k THEN v ELSE d[x]]

\* del d[k]
Del(d, k) == [x \in DOMAIN d \ {k} |-> d[x]]

\* the orders in which the slots of a set's table may hold the websockets
Orders ==
    {o \in [1..Cardinality(WebSockets) -> WebSockets] :
        \A a, b \in DOMAIN o : a # b => o[a] # o[b]}

\* iter(s) of the for loops: the iterator keeps the set object, its size at
\* that moment (si_used) and a position in its table; over is what the set
\* held when the loop began
Iter(s, order) ==
    [set |-> s, si_used |-> Cardinality(set_objects[s]), order |-> order, si_pos |-> 0,
     over |-> set_objects[s]]

\* next(it): an error when the size of the set is no longer the one the
\* iterator started with, otherwise the member in the next used slot
IterNext(it) ==
    LET later == {k \in (it.si_pos + 1)..Len(it.order) :
                     it.order[k] \in set_objects[it.set]}
        k == CHOOSE m \in later : \A n \in later : m <= n
    IN  IF Cardinality(set_objects[it.set]) # it.si_used
        THEN [kind |-> "RuntimeError", websocket |-> "none", it |-> it]
        ELSE IF later = {}
        THEN [kind |-> "StopIteration", websocket |-> "none", it |-> it]
        ELSE [kind |-> "item", websocket |-> it.order[k],
              it |-> [it EXCEPT !.si_pos = k]]

\* a coroutine ends, by a return ("none") or by the exception named
Ended(how) == [IdleCoroutine EXCEPT !.raised = how]

\* add_task (websocket_notifier.py lines 19-20): a new, empty set object,
\* whether or not the task had one
AddTask(task_id) ==
    /\ Len(set_objects) < MaxSets
    /\ set_objects' = Append(set_objects, {})
    /\ task_subscribers' = Put(task_subscribers, task_id, Len(set_objects) + 1)
    /\ UNCHANGED <<task_status_ws, remove_task, notify_task_subscribers>>
    /\ UNCHANGED pipelineVars

\* remove_task from its call to its first await (lines 23-25), or to its
\* return when the set is empty (line 27); for a task without an entry the
\* call returns with nothing changed
RemoveTaskCall(task_id) ==
    /\ remove_task.pc = "idle"
    /\ task_id \in DOMAIN task_subscribers
    /\ \E order \in Orders :
          LET first == IterNext(Iter(task_subscribers[task_id], order))
          IN  IF first.kind = "item"
              THEN /\ remove_task' = [IdleCoroutine EXCEPT !.pc = "closing",
                                         !.task_id = task_id, !.it = first.it,
                                         !.websocket = first.websocket]
                   /\ UNCHANGED task_subscribers
              ELSE /\ remove_task' = Ended("none")
                   /\ task_subscribers' = Del(task_subscribers, task_id)
    /\ UNCHANGED <<set_objects, task_status_ws, notify_task_subscribers>>
    /\ UNCHANGED pipelineVars

\* remove_task from the return of websocket.close() to the next await or to
\* the end (lines 24-27); closed is whether close() returned or raised
RemoveTaskResume ==
    /\ remove_task.pc = "closing"
    /\ \E closed \in BOOLEAN :
          LET following == IterNext(remove_task.it)
          IN  IF ~closed
              THEN /\ remove_task' = Ended("close")
                   /\ UNCHANGED task_subscribers
              ELSE IF following.kind = "RuntimeError"
              THEN /\ remove_task' = Ended("RuntimeError: Set changed size during iteration")
                   /\ UNCHANGED task_subscribers
              ELSE IF following.kind = "item"
              THEN /\ remove_task' = [remove_task EXCEPT !.it = following.it,
                                         !.websocket = following.websocket]
                   /\ UNCHANGED task_subscribers
              ELSE IF remove_task.task_id \in DOMAIN task_subscribers
              THEN /\ remove_task' = Ended("none")
                   /\ task_subscribers' = Del(task_subscribers, remove_task.task_id)
              ELSE /\ remove_task' = Ended("KeyError")
                   /\ UNCHANGED task_subscribers
    /\ UNCHANGED <<set_objects, task_status_ws, notify_task_subscribers>>
    /\ UNCHANGED pipelineVars

\* notify_task_subscribers from its call to its first await (lines 30-33)
NotifyCall(task_id) ==
    /\ notify_task_subscribers.pc = "idle"
    /\ IF task_id \notin DOMAIN task_subscribers
       THEN notify_task_subscribers' = Ended("RuntimeError: no subscribers list")
       ELSE notify_task_subscribers' =
                [IdleCoroutine EXCEPT !.pc = "fetching", !.task_id = task_id]
    /\ UNCHANGED <<task_subscribers, set_objects, task_status_ws, remove_task>>
    /\ UNCHANGED pipelineVars

\* the step of the loop of lines 41-46 that follows next(it)
NotifyLoop(following) ==
    IF following.kind = "RuntimeError"
    THEN Ended("RuntimeError: Set changed size during iteration")
    ELSE IF following.kind = "item"
    THEN [notify_task_subscribers EXCEPT !.pc = "sending", !.it = following.it,
             !.websocket = following.websocket]
    ELSE Ended("none")

\* from the orchestrator's answers (lines 33-34) to the first send_text
\* (line 42); completed is what task.is_completed() will say
NotifyFetched ==
    /\ notify_task_subscribers.pc = "fetching"
    /\ LET task_id == notify_task_subscribers.task_id
       IN  IF task_id \notin DOMAIN task_subscribers
           THEN notify_task_subscribers' = Ended("KeyError")
           ELSE \E completed \in BOOLEAN, order \in Orders :
                   LET started == [notify_task_subscribers EXCEPT !.completed = completed]
                       first == IterNext(Iter(task_subscribers[task_id], order))
                   IN  notify_task_subscribers' =
                           IF first.kind = "item"
                           THEN [started EXCEPT !.pc = "sending", !.it = first.it,
                                    !.websocket = first.websocket]
                           ELSE Ended("none")
    /\ UNCHANGED <<task_subscribers, set_objects, task_status_ws, remove_task>>
    /\ UNCHANGED pipelineVars

\* from the return of send_text (line 42) to the close of line 46 or to the
\* next send_text; sent is whether send_text returned or raised
NotifySent ==
    /\ notify_task_subscribers.pc = "sending"
    /\ \E sent \in BOOLEAN :
          notify_task_subscribers' =
              IF ~sent THEN Ended("send_text")
              ELSE IF notify_task_subscribers.completed
              THEN [notify_task_subscribers EXCEPT !.pc = "closing"]
              ELSE NotifyLoop(IterNext(notify_task_subscribers.it))
    /\ UNCHANGED <<task_subscribers, set_objects, task_status_ws, remove_task>>
    /\ UNCHANGED pipelineVars

\* from the return of websocket.close() (line 46) to the next send_text
NotifyClosed ==
    /\ notify_task_subscribers.pc = "closing"
    /\ \E closed \in BOOLEAN :
          notify_task_subscribers' =
              IF ~closed THEN Ended("close")
              ELSE NotifyLoop(IterNext(notify_task_subscribers.it))
    /\ UNCHANGED <<task_subscribers, set_objects, task_status_ws, remove_task>>
    /\ UNCHANGED pipelineVars

\* a client connects: task_status_ws up to await websocket.accept() (app.py
\* lines 465-471)
Connect(websocket, task_id) ==
    /\ task_status_ws[websocket].pc = "none"
    /\ task_status_ws' = [task_status_ws EXCEPT ![websocket] =
                             [pc |-> "accepting", task_id |-> task_id, raised |-> "none"]]
    /\ UNCHANGED <<task_subscribers, set_objects, remove_task, notify_task_subscribers>>
    /\ UNCHANGED pipelineVars

\* from accept() to the first await of the try block (lines 473-488); known is
\* whether the orchestrator has the task.  An unknown task ends the handler
\* (lines 473-480); a known one without an entry makes line 485 raise
Subscribe(websocket) ==
    /\ task_status_ws[websocket].pc = "accepting"
    /\ LET task_id == task_status_ws[websocket].task_id
       IN  \E known \in BOOLEAN :
              IF ~known
              THEN /\ task_status_ws' = [task_status_ws EXCEPT ![websocket].pc = "ended"]
                   /\ UNCHANGED set_objects
              ELSE IF task_id \notin DOMAIN task_subscribers
              THEN /\ task_status_ws' = [task_status_ws EXCEPT ![websocket].pc = "ended",
                                            ![websocket].raised = "KeyError at add"]
                   /\ UNCHANGED set_objects
              ELSE /\ set_objects' =
                          [set_objects EXCEPT ![task_subscribers[task_id]] =
                              @ \cup {websocket}]
                   /\ task_status_ws' = [task_status_ws EXCEPT ![websocket].pc = "serving"]
    /\ UNCHANGED <<task_subscribers, remove_task, notify_task_subscribers>>
    /\ UNCHANGED pipelineVars

\* the handler leaves the try block at one of its awaits (lines 488-516), by
\* WebSocketDisconnect or another exception, and the finally clause runs
\* (line 523).  The loop of lines 500-517 itself changes none of this state.
Leave(websocket) ==
    /\ task_status_ws[websocket].pc = "serving"
    /\ LET task_id == task_status_ws[websocket].task_id
       IN  IF task_id \notin DOMAIN task_subscribers
           THEN /\ task_status_ws' = [task_status_ws EXCEPT ![websocket].pc = "ended",
                                         ![websocket].raised = "KeyError: task_id"]
                /\ UNCHANGED set_objects
           ELSE IF websocket \notin set_objects[task_subscribers[task_id]]
           THEN /\ task_status_ws' = [task_status_ws EXCEPT ![websocket].pc = "ended",
                                         ![websocket].raised = "KeyError: websocket"]
                /\ UNCHANGED set_objects
           ELSE /\ set_objects' =
                       [set_objects EXCEPT ![task_subscribers[task_id]] =
                           @ \ {websocket}]
                /\ task_status_ws' = [task_status_ws EXCEPT ![websocket].pc = "ended"]
    /\ UNCHANGED <<task_subscribers, remove_task, notify_task_subscribers>>
    /\ UNCHANGED pipelineVars

NextNotifier ==
    \/ \E task_id \in TaskIds : AddTask(task_id)
    \/ \E task_id \in TaskIds : RemoveTaskCall(task_id)
    \/ RemoveTaskResume
    \/ \E task_id \in TaskIds : NotifyCall(task_id)
    \/ NotifyFetched
    \/ NotifySent
    \/ NotifyClosed
    \/ \E websocket \in WebSockets, task_id \in TaskIds : Connect(websocket, task_id)
    \/ \E websocket \in WebSockets : Subscribe(websocket)
    \/ \E websocket \in WebSockets : Leave(websocket)

SpecNotifier == Init /\ [][NextNotifier]_vars

(***************************************************************************)
(* cleanup_markdown as a function of its two arguments: the stages of      *)
(* lines 56-79 applied one after the other, the two loops as recursions.   *)
(***************************************************************************)
\* _combine_numbered_headings(ls), from loop index k on
RECURSIVE CombinedFrom(_, _)
CombinedFrom(ls, k) ==
    IF ~(k < Len(ls)) THEN <<>>
    ELSE IF MergeApplies(ls, k) THEN <<Merged(ls, k)>> \o CombinedFrom(ls, k + 2)
    ELSE <<ls[k + 1]>> \o CombinedFrom(ls, k + 1)

\* _reflow_paragraphs(ls), from line k on, with the buffer and the fence flag
RECURSIVE ReflowedFrom(_, _, _, _)
ReflowedFrom(ls, k, buffer, fenced) ==
    IF k > Len(ls) THEN Flushed(<<>>, buffer)
    ELSE
        LET raw_line == ls[k]
            line     == RStrip(raw_line)
            stripped == Strip(line)
        IN  IF StartsWith(stripped, <<BACKTICK, BACKTICK, BACKTICK>>)
            THEN Flushed(<<>>, buffer) \o <<line>> \o ReflowedFrom(ls, k + 1, <<>>, ~fenced)
            ELSE IF fenced
            THEN <<line>> \o ReflowedFrom(ls, k + 1, buffer, fenced)
            ELSE IF IsStructureLine(stripped, raw_line)
            THEN Flushed(<<>>, buffer) \o <<line>> \o ReflowedFrom(ls, k + 1, <<>>, fenced)
            ELSE IF stripped = <<>>
            THEN Flushed(<<>>, buffer) \o << <<>> >> \o ReflowedFrom(ls, k + 1, <<>>, fenced)
            ELSE ReflowedFrom(ls, k + 1, Append(buffer, stripped), fenced)

\* cleanup_markdown(md, opts): the text returned, or the exception raised
ResultAlone(md, opts) ==
    IF md = <<>> THEN [raised |-> "none", cleaned |-> md]
    ELSE
        LET split == SplitLines(md)
            got   == IF opts.remove_patterns # <<>>
                     THEN RemovePatternMatches(split, opts.remove_patterns)
                     ELSE [raised |-> "none", lines |-> split]
        IN  IF got.raised # "none" THEN [raised |-> got.raised, cleaned |-> <<>>]
            ELSE
                LET kept     == IF opts.auto_remove_domain_headings
                                THEN RemoveRepeatedDomainHeadings(got.lines) ELSE got.lines
                    merged   == IF opts.combine_numbered_headings
                                THEN CombinedFrom(kept, 0) ELSE kept
                    reflown  == IF opts.reflow_paragraphs
                                THEN ReflowedFrom(merged, 1, <<>>, FALSE) ELSE merged
                IN  [raised |-> "none",
                     cleaned |-> Joined(SquashBlankLines(EnsureHeadingSpacing(reflown)),
                                        EndsWith(md, <<NL>>))]

(***************************************************************************)
(* Properties.                                                             *)
(***************************************************************************)
Returned == pc = "done"

\* the lines of the text passed in
InputLines == SplitLines(markdown)

IsBlank(line) == \A k \in 1..Len(line) : IsSpace(line[k])

StartsWithHash(line) == \E k \in 1..Len(line) :
    /\ line[k] = HASH
    /\ \A j \in 1..(k - 1) : IsSpace(line[j])

AllStagesOff(opts) ==
    /\ opts.remove_patterns = <<>>
    /\ ~opts.auto_remove_domain_headings
    /\ ~opts.combine_numbered_headings
    /\ ~opts.reflow_paragraphs

\* the elements of xs at the indices of K, in order
RECURSIVE AtIndices(_, _, _)
AtIndices(xs, K, k) ==
    IF k > Len(xs) THEN <<>>
    ELSE (IF k \in K THEN <<xs[k]>> ELSE <<>>) \o AtIndices(xs, K, k + 1)

\* xs with each maximal run of blank lines cut down to its first line
BlankRunsCollapsed(xs) ==
    AtIndices(xs, {k \in 1..Len(xs) : ~(k > 1 /\ IsBlank(xs[k]) /\ IsBlank(xs[k - 1]))}, 1)

\* xs with an empty line put after every line that starts with "#" and is directly
\* followed by a line that is not blank and does not start with "#"
RECURSIVE BlankAfterHeadings(_, _)
BlankAfterHeadings(xs, k) ==
    IF k > Len(xs) THEN <<>>
    ELSE <<xs[k]>>
         \o (IF /\ StartsWithHash(xs[k])
                /\ k < Len(xs)
                /\ ~IsBlank(xs[k + 1])
                /\ ~StartsWithHash(xs[k + 1])
             THEN << <<>> >> ELSE <<>>)
         \o BlankAfterHeadings(xs, k + 1)

\* C1: idempotence under default options: a second run, on the text the first
\* run returned, returns that text unchanged.
C1_Idempotent ==
    (Returned /\ calls = 2 /\ options = DefaultOptions) => cleaned = markdown

\* C2: trailing-newline preservation: the returned text ends with exactly one
\* newline if the input ended with a newline, and with none if it did not.
C2_TrailingNewlinePreserved ==
    Returned =>
        /\ EndsWith(markdown, <<NL>>) <=> EndsWith(cleaned, <<NL>>)
        /\ ~EndsWith(cleaned, <<NL, NL>>)

\* C3 as stated: with every toggleable stage off, the lines of the output are the
\* lines of the input with each run of blank lines collapsed, and no line is
\* inserted.
C3_OnlyBlankSquash ==
    (Returned /\ AllStagesOff(options)) => squashed = BlankRunsCollapsed(InputLines)

\* C3 as amended: with every toggleable stage off, the lines of the output are the
\* lines of the input with an empty line inserted after every line starting with
\* "#" that is directly followed by a non-blank line not starting with "#", and
\* then each run of blank lines collapsed to its first line.
C3_SpacingThenBlankSquash ==
    (Returned /\ AllStagesOff(options)) =>
        squashed = BlankRunsCollapsed(BlankAfterHeadings(InputLines, 1))

\* a run with the stages off whose input has a run of blank lines and a heading
\* directly followed by text
C3_Witness ==
    /\ Returned /\ AllStagesOff(options) /\ calls = 1
    /\ \E k \in 1..(Len(InputLines) - 1) :
          IsBlank(InputLines[k]) /\ IsBlank(InputLines[k + 1])
    /\ \E k \in 1..(Len(InputLines) - 1) :
          /\ StartsWithHash(InputLines[k])
          /\ ~IsBlank(InputLines[k + 1])
          /\ ~StartsWithHash(InputLines[k + 1])
    /\ Len(squashed) = Len(InputLines)

IsFenceLine(line) == StartsWith(Strip(line), <<BACKTICK, BACKTICK, BACKTICK>>)

\* the pairs <<a, b>> of an opening fence line and its closing fence line
FencedBlocks(xs) ==
    {ab \in (1..Len(xs)) \X (1..Len(xs)) :
        /\ ab[1] < ab[2]
        /\ IsFenceLine(xs[ab[1]]) /\ IsFenceLine(xs[ab[2]])
        /\ \A k \in (ab[1] + 1)..(ab[2] - 1) : ~IsFenceLine(xs[k])
        /\ Cardinality({k \in 1..(ab[1] - 1) : IsFenceLine(xs[k])}) % 2 = 0}

\* C4: every fenced block of the input (the two fence lines and the lines between
\* them) appears in the output as consecutive lines, unchanged.
C4_FencedBlocksVerbatim ==
    Returned =>
        \A ab \in FencedBlocks(InputLines) :
            \E k \in 1..Len(squashed) :
                /\ k + (ab[2] - ab[1]) <= Len(squashed)
                /\ SubSeq(squashed, k, k + (ab[2] - ab[1]))
                      = SubSeq(InputLines, ab[1], ab[2])

\* C5: an options value that was constructed without error never makes
\* cleanup_markdown raise a regex-compilation error.
C5_NoRegexErrorInPipeline ==
    pc # "config_error" => raised # "re.error"

PatternsValid(opts) ==
    \A k \in 1..Len(opts.remove_patterns) : GroupDepth(opts.remove_patterns[k], 0) = 0

\* C6: with valid patterns cleanup_markdown never raises: no regex error leaves
\* it and neither loop reads a line past the end of the list; for the empty string
\* it returns the empty string at once, without entering a stage.
C6_Total ==
    PatternsValid(options) =>
        /\ raised = "none" /\ pc \notin {"raised", "config_error"}
        /\ pc = "combine" => i <= Len(lines)
        /\ pc = "reflow" => pos <= Len(lines)
        /\ (calls > 0 /\ markdown = <<>>) => (Returned /\ cleaned = <<>>)

\* a call returned for a lone numeric heading, whose lookahead has no next line
C6_Witness ==
    /\ Returned /\ calls = 1 /\ raised = "none"
    /\ markdown = <<"#", "#", " ", "2">>
    /\ cleaned = markdown

\* the classifier's reading of a line as a domain-shaped heading
DomainHeadingOf(line) == DomainHeadingMatch(Strip(line))

SameIgnoringCase(a, b) ==
    /\ Len(a) = Len(b)
    /\ \A k \in 1..Len(a) : LowerChar(a[k]) = LowerChar(b[k])

\* line k of xs is a domain-shaped heading whose text is also the text of a
\* domain-shaped heading on another line of xs
RepeatedLine(xs, k) ==
    /\ DomainHeadingOf(xs[k]).ok
    /\ \E j \in (1..Len(xs)) \ {k} :
          /\ DomainHeadingOf(xs[j]).ok
          /\ SameIgnoringCase(DomainHeadingOf(xs[k]).text, DomainHeadingOf(xs[j]).text)

\* line is a domain-shaped heading whose text is repeated in xs
RepeatedIn(xs, line) ==
    /\ DomainHeadingOf(line).ok
    /\ \E k \in 1..Len(xs) :
          /\ RepeatedLine(xs, k)
          /\ SameIgnoringCase(DomainHeadingOf(line).text, DomainHeadingOf(xs[k]).text)

DomainStageRuns == pc = "domains" /\ options.auto_remove_domain_headings

AllRepeatedDeleted(before, after) ==
    /\ Len(after) = Len(before) - Cardinality({k \in 1..Len(before) : RepeatedLine(before, k)})
    /\ \A j \in 1..Len(after) : ~RepeatedIn(before, after[j])

\* C7: the domain-heading stage deletes every line whose domain-heading text
\* occurs on more than one line of the document (any level, any letter case, the
\* first occurrence included), and none of them is left.
C7_RepeatedDomainHeadingsDeleted ==
    [][DomainStageRuns => AllRepeatedDeleted(lines, lines')]_vars

\* the stage has run on a document where the same domain text was a level-1
\* heading in upper case and, later, a level-2 heading in lower case
C7_Witness ==
    /\ pc = "combine" /\ i = 0 /\ calls = 1
    /\ options.remove_patterns = <<>> /\ options.auto_remove_domain_headings
    /\ \E j, k \in 1..Len(InputLines) :
          /\ j < k
          /\ InputLines[j] = <<"#", " ", "A", ".", "B">>
          /\ InputLines[k] = <<"#", "#", " ", "a", ".", "b">>
    /\ Len(lines) = Len(InputLines) - 2
    /\ Len(lines) = 2

OthersKept(before, after) ==
    /\ AtIndices(after, {j \in 1..Len(after) : ~RepeatedIn(before, after[j])}, 1)
          = AtIndices(before, {k \in 1..Len(before) : ~RepeatedLine(before, k)}, 1)
    /\ (\A k \in 1..Len(before) : ~RepeatedLine(before, k)) => after = before

\* C8: the domain-heading stage keeps every other line (a domain-shaped heading
\* whose text occurs once, and every line that is no domain-shaped heading)
\* unmodified and in order; with nothing repeated it returns its input.
C8_DomainStageKeepsTheRest ==
    [][DomainStageRuns => OthersKept(lines, lines')]_vars

\* the stage has run on a document with a repeated domain heading and one that
\* occurs once, and the latter is still there
C8_Witness ==
    /\ pc = "combine" /\ i = 0 /\ calls = 1
    /\ options.remove_patterns = <<>> /\ options.auto_remove_domain_headings
    /\ Cardinality({k \in 1..Len(InputLines) : InputLines[k] = <<"#", "#", " ", "a", ".", "b">>}) = 2
    /\ \E k \in 1..Len(InputLines) : InputLines[k] = <<"#", "#", " ", "c", ".", "d">>
    /\ \E k \in 1..Len(InputLines) : InputLines[k] = <<"x">>
    /\ lines \in {<<<<"#", "#", " ", "c", ".", "d">>, <<"x">>>>, <<<<"x">>, <<"#", "#", " ", "c", ".", "d">>>>}

\* the classifier's reading of a line as a heading
HeadingOf(line) == HeadingMatch(Strip(line))

\* t is digits, optionally followed by "." or ")"
OnlyNumber(t) ==
    \E d \in 1..Len(t) :
        /\ \A k \in 1..d : t[k] \in Digits
        /\ \/ Len(t) = d
           \/ Len(t) = d + 1 /\ t[d + 1] \in {".", ")"}

\* the merge rule for the line at 0-based position k
MergeRule(xs, k) ==
    /\ HeadingOf(xs[k + 1]).ok
    /\ OnlyNumber(HeadingOf(xs[k + 1]).text)
    /\ k + 2 <= Len(xs)
    /\ HeadingOf(xs[k + 2]).ok
    /\ HeadingOf(xs[k + 2]).level = HeadingOf(xs[k + 1]).level
    /\ ~OnlyNumber(HeadingOf(xs[k + 2]).text)

MergerIterates ==
    pc = "combine" /\ options.combine_numbered_headings /\ i < Len(lines)

\* C9: an iteration of the heading merger at position i merges iff the merge rule
\* holds there; a merge consumes two lines and emits one heading of that level,
\* anything else emits the current line unchanged and advances by one.
C9_MergeRule ==
    [][MergerIterates =>
          IF MergeRule(lines, i)
          THEN /\ i' = i + 2
               /\ Len(combined') = Len(combined) + 1
               /\ SubSeq(combined', 1, Len(combined)) = combined
               /\ HeadingOf(combined'[Len(combined')]).ok
               /\ HeadingOf(combined'[Len(combined')]).level = HeadingOf(lines[i + 1]).level
               /\ combined'[Len(combined')] \notin {lines[i + 1], lines[i + 2]}
          ELSE /\ i' = i + 1
               /\ combined' = Append(combined, lines[i + 1])]_vars

\* the merger left a numeric heading followed by a numeric heading unmerged and
\* merged the second with the title after it
C9_Witness ==
    /\ pc = "combine" /\ calls = 1 /\ i = 3
    /\ SubSeq(lines, 1, 3) = <<<<"#", "#", " ", "2">>, <<"#", "#", " ", "1", ")">>, <<"#", "#", " ", "H", "o", "p", "e">>>>
    /\ Len(combined) = 2
    /\ combined[1] = <<"#", "#", " ", "2">>

\* the heading the merge rule prescribes for a numeric heading a and a title heading b
ExpectedMerged(a, b) ==
    LET level  == HeadingOf(a).level
        text   == HeadingOf(a).text
        title  == HeadingOf(b).text
        digits == {k \in 1..Len(text) : text[k] \in Digits}
        number == AtIndices(text, digits, 1)
        sep    == IF Len(text) > Cardinality(digits) THEN <<text[Len(text)]>> ELSE <<".">>
        spacer == IF title[1] \in {".", ")", "-", ENDASH} THEN <<>> ELSE <<" ">>
    IN  [k \in 1..level |-> HASH] \o <<" ">> \o number \o sep \o spacer \o title

\* C10: the heading emitted by a merge is the level marker, a space, the number,
\* the separator, the spacer and the title; "## 2" and "## Hope" give "## 2. Hope".
C10_MergedText ==
    [][(MergerIterates /\ i' = i + 2) =>
          /\ combined'[Len(combined')] = ExpectedMerged(lines[i + 1], lines[i + 2])
          /\ (lines[i + 1] = <<"#", "#", " ", "2">> /\ lines[i + 2] = <<"#", "#", " ", "H", "o", "p", "e">>)
                => combined'[Len(combined')] = <<"#", "#", " ", "2", ".", " ", "H", "o", "p", "e">>]_vars

\* "## 2" and "## Hope" have been merged, and so have a number with ")" and a
\* title that starts with "-"
C10_Witness ==
    /\ pc = "combine" /\ calls = 1 /\ i = 4
    /\ combined = <<<<"#", "#", " ", "2", ".", " ", "H", "o", "p", "e">>, <<"#", "#", " ", "1", ")", "-", "x">>>>

(***************************************************************************)
(* The line kinds of the classifier: the rules are tried in this order on  *)
(* the trimmed line, the indentation rule on the raw line.                 *)
(***************************************************************************)
IsListItem(t) ==
    \E m \in 1..Len(t) :
        /\ \/ m = 1 /\ t[1] \in {"*", "-", "+"}
           \/ m > 1 /\ t[m] = "." /\ \A j \in 1..(m - 1) : t[j] \in Digits
        /\ m < Len(t)
        /\ IsSpace(t[m + 1])

IsIndented(raw) == StartsWith(raw, <<" ", " ", " ", " ">>) \/ StartsWith(raw, <<"\t">>)

IsTableRow(t) ==
    t # <<>> /\ t[1] = "|" /\ Cardinality({k \in 1..Len(t) : t[k] = "|"}) >= 2

IsHtmlComment(t) ==
    StartsWith(t, <<"<", "!", "-", "-">>) /\ EndsWith(t, <<"-", "-", ">">>)

IsThematicBreak(t) ==
    /\ Len(t) >= 3
    /\ \E c \in {"=", "-"} : \A k \in 1..Len(t) : t[k] = c

Kind(raw) ==
    LET t == Strip(raw) IN
    IF HeadingOf(raw) # NoMatch THEN "Heading"
    ELSE IF IsFenceLine(raw) THEN "CodeFence"
    ELSE IF StartsWith(t, <<">">>) THEN "Blockquote"
    ELSE IF IsListItem(t) THEN "ListItem"
    ELSE IF IsIndented(raw) THEN "IndentedBlock"
    ELSE IF IsTableRow(t) THEN "TableRow"
    ELSE IF IsHtmlComment(t) THEN "HtmlComment"
    ELSE IF IsThematicBreak(t) THEN "ThematicBreak"
    ELSE IF t = <<>> THEN "Blank"
    ELSE "Prose"

\* the reflow pass runs on the lines it was given and hands back its output
ReflowRuns == pc = "reflow" /\ options.reflow_paragraphs

ReflowReturns == ReflowRuns /\ pc' = "spacing"

\* xs cut into its maximal runs of Prose lines outside a fence, every other line a
\* segment of its own; a triple-backtick line opens or closes a fence
RECURSIVE Segments(_, _, _, _)
Segments(xs, k, fenced, run) ==
    LET pending == IF run = <<>> THEN <<>> ELSE <<[prose |-> TRUE, of |-> run]>>
        single  == <<[prose |-> FALSE, of |-> <<xs[k]>>]>>
    IN  IF k > Len(xs) THEN pending
        ELSE IF IsFenceLine(xs[k]) THEN pending \o single \o Segments(xs, k + 1, ~fenced, <<>>)
        ELSE IF fenced THEN single \o Segments(xs, k + 1, fenced, <<>>)
        ELSE IF Kind(xs[k]) = "Prose" THEN Segments(xs, k + 1, fenced, Append(run, xs[k]))
        ELSE pending \o single \o Segments(xs, k + 1, fenced, <<>>)

\* the trimmed lines of a run, joined by single spaces
RECURSIVE SpaceJoined(_)
SpaceJoined(run) ==
    IF run = <<>> THEN <<>>
    ELSE IF Len(run) = 1 THEN Strip(run[1])
    ELSE Strip(run[1]) \o <<" ">> \o SpaceJoined(Tail(run))

\* C11: reflow emits every maximal run of consecutive Prose lines outside a code
\* fence as exactly one output line, the trimmed lines of the run joined by single
\* spaces, at the position of the run; a run pending at the end is emitted last.
C11_ProseRunsMerged ==
    [][ReflowReturns =>
        LET segs == Segments(lines, 1, FALSE, <<>>) IN
        /\ Len(lines') = Len(segs)
        /\ \A s \in 1..Len(segs) :
              segs[s].prose => lines'[s] = SpaceJoined(segs[s].of)]_vars

\* the first n lines of xs hold an odd number of triple-backtick lines
InsideFence(xs, n) ==
    Cardinality({k \in 1..n : IsFenceLine(xs[k])}) % 2 = 1

\* one iteration of the reflow loop, on the line after position pos
ReflowIterates == ReflowRuns /\ pc' = "reflow"

\* the output so far, after the pending prose buffer is flushed
AfterFlush == IF paragraph = <<>> THEN reflowed ELSE Append(reflowed, SpaceJoined(paragraph))

StructuralKinds ==
    {"Heading", "CodeFence", "ListItem", "TableRow", "Blockquote", "ThematicBreak",
     "HtmlComment", "IndentedBlock"}

\* the line of this iteration is outside a fence and blank or structural
BlankOrStructuralOutside ==
    /\ ReflowIterates
    /\ ~InsideFence(lines, pos)
    /\ Kind(lines[pos + 1]) \in StructuralKinds \cup {"Blank"}

\* C12 as stated: a blank or structural line outside a fence flushes the buffer and
\* is then emitted verbatim as an output line of its own; lines already emitted
\* stay as they are, in their order.
C12_StructuralVerbatim ==
    [][BlankOrStructuralOutside =>
        /\ reflowed' = Append(AfterFlush, lines[pos + 1])
        /\ paragraph' = <<>>]_vars

\* C12, amended: a blank or structural line outside a fence flushes the buffer and
\* is then emitted without its line-end whitespace as an output line of its own,
\* a whitespace-only line as the empty line; no iteration changes or reorders a
\* line already emitted.
C12_StructuralRightStripped ==
    [][(BlankOrStructuralOutside =>
            /\ reflowed' = Append(AfterFlush, RStrip(lines[pos + 1]))
            /\ paragraph' = <<>>)
       /\ (ReflowIterates =>
            /\ Len(reflowed') >= Len(reflowed)
            /\ SubSeq(reflowed', 1, Len(reflowed)) = reflowed)]_vars

\* a heading with line-end whitespace has just been emitted after the prose line
\* before it was flushed
C12_Witness ==
    /\ ReflowRuns
    /\ pos >= 2
    /\ ~InsideFence(lines, pos)
    /\ Kind(lines[pos - 1]) = "Prose"
    /\ Kind(lines[pos]) = "Heading"
    /\ RStrip(lines[pos]) # lines[pos]
    /\ paragraph = <<>>
    /\ Len(reflowed) >= 2
    /\ reflowed[Len(reflowed)] = RStrip(lines[pos])
    /\ reflowed[Len(reflowed) - 1] = Strip(lines[pos - 1])

\* what each pattern of NoisePatterns that compiles asks of the trimmed line t
NoiseLineAnchored == <<"^", "N", "o", "i", "s", "e", " ", "l", "i", "n", "e", "$">>

Found(pattern, t) ==
    IF pattern = NoiseLineAnchored
    THEN SameIgnoringCase(t, <<"N", "o", "i", "s", "e", " ", "l", "i", "n", "e">>)
    ELSE IF pattern = <<"(", "n", ")">>
    THEN \E k \in 1..Len(t) : t[k] \in {"n", "N"}
    ELSE IF pattern = <<"^", "#", " ">>
    THEN Len(t) >= 2 /\ t[1] = HASH /\ t[2] = " "
    ELSE FALSE

KeptByPatterns(xs, patterns) ==
    AtIndices(xs, {k \in 1..Len(xs) :
                      ~\E j \in 1..Len(patterns) : Found(patterns[j], Strip(xs[k]))}, 1)

\* C13: pattern removal drops a line in full exactly when some pattern is found,
\* by search and without regard to case, in the trimmed content of the line; the
\* other lines are kept as they are and in their order; with no pattern the
\* stage changes nothing.
C13_PatternRemoval ==
    [][(pc = "patterns" /\ pc' = "domains") =>
        IF options.remove_patterns = <<>>
        THEN lines' = lines
        ELSE lines' = KeptByPatterns(lines, options.remove_patterns)]_vars

\* ['^Noise line$'] on 'Noise line', 'Actual content' has left 'Actual content'
C13_Witness ==
    /\ pc = "domains"
    /\ options.remove_patterns = <<NoiseLineAnchored>>
    /\ InputLines = <<<<"N", "o", "i", "s", "e", " ", "l", "i", "n", "e">>,
                      <<"A", "c", "t", "u", "a", "l", " ", "c", "o", "n", "t", "e", "n", "t">>>>
    /\ lines = <<<<"A", "c", "t", "u", "a", "l", " ", "c", "o", "n", "t", "e", "n", "t">>>>

NoTwoBlanksInARow(xs) ==
    \A k \in 1..(Len(xs) - 1) : ~(IsBlank(xs[k]) /\ IsBlank(xs[k + 1]))

\* the lines of xs that are not blank, in order
NonBlanks(xs) == AtIndices(xs, {k \in 1..Len(xs) : ~IsBlank(xs[k])}, 1)

\* the number of maximal runs of blank lines of xs
BlankRuns(xs) ==
    Cardinality({k \in 1..Len(xs) : IsBlank(xs[k]) /\ (k = 1 \/ ~IsBlank(xs[k - 1]))})

\* the squasher has run: lines is what it was given, squashed what it produced
Squashed == pc \in {"join", "done"} /\ markdown # <<>>

\* C14: the output never has two blank lines in a row; the squasher replaces each
\* maximal run of two or more blank lines, a leading or trailing run too, by one
\* blank line, keeps a single blank line, and removes or changes no line that is
\* not blank.
C14_BlankRunsSquashed ==
    /\ Squashed =>
          /\ NoTwoBlanksInARow(squashed)
          /\ NonBlanks(squashed) = NonBlanks(lines)
          /\ BlankRuns(squashed) = BlankRuns(lines)
          /\ squashed = BlankRunsCollapsed(lines)
    /\ Returned => NoTwoBlanksInARow(SplitLines(cleaned))

\* three blank lines in a row at the head of the input have come out as one
C14_Witness ==
    /\ Returned
    /\ AllStagesOff(options)
    /\ Len(InputLines) = 4
    /\ \A k \in 1..3 : IsBlank(InputLines[k])
    /\ ~IsBlank(InputLines[4])
    /\ squashed = <<InputLines[1], InputLines[4]>>
    /\ SplitLines(cleaned) = squashed

\* the control points of one call, in the order the stages are written
StageSuccessors ==
    {<<"idle", "patterns">>, <<"idle", "done">>, <<"idle", "config_error">>,
     <<"done", "patterns">>,
     <<"patterns", "domains">>, <<"patterns", "raised">>,
     <<"domains", "combine">>, <<"combine", "reflow">>, <<"reflow", "spacing">>,
     <<"spacing", "squash">>, <<"squash", "join">>, <<"join", "done">>,
     <<"idle", "responded">>, <<"done", "responded">>}

\* a stage that is switched off hands its input on; spacing and squashing are
\* applied whatever the options are
StageEffects ==
    /\ (pc = "patterns" /\ pc' = "domains" /\ options.remove_patterns = <<>>) => lines' = lines
    /\ (pc = "domains" /\ ~options.auto_remove_domain_headings) => lines' = lines
    /\ (pc = "combine" /\ pc' = "reflow" /\ ~options.combine_numbered_headings) => lines' = lines
    /\ (pc = "reflow" /\ pc' = "spacing" /\ ~options.reflow_paragraphs) => lines' = lines
    /\ pc = "spacing" => lines' = BlankAfterHeadings(lines, 1)
    /\ pc = "squash" => squashed' = BlankRunsCollapsed(lines) /\ lines' = lines

\* xs without the lines whose domain-heading text is repeated in xs
WithoutRepeated(xs) == AtIndices(xs, {k \in 1..Len(xs) : ~RepeatedLine(xs, k)}, 1)

\* the domain stage has counted what pattern removal left
CountedAfterPatterns ==
    (pc = "combine" /\ options.remove_patterns # <<>> /\ options.auto_remove_domain_headings)
        => lines = WithoutRepeated(KeptByPatterns(InputLines, options.remove_patterns))

\* a number heading and a title of its level with only a removed line between them
SeparatedByRemoved ==
    /\ Len(InputLines) = 3
    /\ options.remove_patterns # <<>>
    /\ options.combine_numbered_headings
    /\ KeptByPatterns(InputLines, options.remove_patterns) = <<InputLines[1], InputLines[3]>>
    /\ MergeRule(<<InputLines[1], InputLines[3]>>, 0)

MergedAcrossRemoved ==
    (pc = "reflow" /\ SeparatedByRemoved)
        => lines = <<ExpectedMerged(InputLines[1], InputLines[3])>>

\* a number heading, a title of its level, then a Prose line
MergedThenProse ==
    /\ Len(InputLines) = 3
    /\ options.remove_patterns = <<>>
    /\ options.combine_numbered_headings
    /\ MergeRule(InputLines, 0)
    /\ Kind(InputLines[3]) = "Prose"

BlankAfterMerged ==
    (pc = "squash" /\ MergedThenProse)
        => lines = <<ExpectedMerged(InputLines[1], InputLines[2]), <<>>,
                     IF options.reflow_paragraphs THEN Strip(InputLines[3]) ELSE InputLines[3]>>

\* C17: the stages run in the order pattern removal, domain-heading removal,
\* heading merge, reflow, heading spacing, blank squash, each on the lines the one
\* before left, the last two always.  So domain headings are counted after pattern
\* removal, a number heading and a title of its level with only a removed line
\* between them are merged, a merged heading directly followed by prose gets a
\* blank line after it, and the blank lines of heading spacing reach the squash.
C17_StageOrder ==
    /\ [][(pc' # pc => <<pc, pc'>> \in StageSuccessors) /\ StageEffects]_vars
    /\ [](CountedAfterPatterns /\ MergedAcrossRemoved /\ BlankAfterMerged)

IsHeading(line) == Kind(line) = "Heading"

\* xs with an empty line put after every Heading that is directly followed by a
\* line that is neither blank nor a Heading
RECURSIVE HeadingsSpaced(_, _)
HeadingsSpaced(xs, k) ==
    IF k > Len(xs) THEN <<>>
    ELSE <<xs[k]>>
         \o (IF /\ IsHeading(xs[k])
                /\ k < Len(xs)
                /\ ~IsBlank(xs[k + 1])
                /\ ~IsHeading(xs[k + 1])
             THEN << <<>> >> ELSE <<>>)
         \o HeadingsSpaced(xs, k + 1)

\* C18: heading spacing inserts exactly one blank line after a line iff the line
\* is a Heading (one to six "#" followed by text; a lone "#" is not one) and the
\* next line exists, is not blank and is not a Heading; it inserts nothing after a
\* last-line heading or a non-heading line and removes or alters no line.
C18_BlankAfterHeadingsOnly ==
    [][pc = "spacing" => lines' = HeadingsSpaced(lines, 1)]_vars

\* C19: in reflow the fence flag is set exactly when an odd number of
\* triple-backtick lines has been processed; a triple-backtick line flushes the
\* buffer, is emitted verbatim and toggles the flag; while the flag is set every
\* line, whatever it looks like and with its trailing whitespace, is emitted
\* verbatim as one output line and nothing is buffered, to the end of the input
\* if the fence is not closed.
C19_FenceHandling ==
    [][ReflowIterates =>
        /\ in_code_block' = InsideFence(lines, pos + 1)
        /\ IsFenceLine(lines[pos + 1]) =>
              /\ reflowed' = Append(AfterFlush, lines[pos + 1])
              /\ paragraph' = <<>>
              /\ in_code_block' = ~in_code_block
        /\ (in_code_block /\ ~IsFenceLine(lines[pos + 1])) =>
              /\ reflowed' = Append(reflowed, lines[pos + 1])
              /\ paragraph' = <<>>]_vars

\* the control points inside a call, last stage first
StagesLeft ==
    [p \in {"join", "squash", "spacing", "reflow", "combine", "domains", "patterns"} |->
        CASE p = "join" -> 1 [] p = "squash" -> 2 [] p = "spacing" -> 3
          [] p = "reflow" -> 4 [] p = "combine" -> 5 [] p = "domains" -> 6
          [] p = "patterns" -> 7]

InsideCall == pc \in DOMAIN StagesLeft

\* a bound on the steps a call has left: the stages still to come, each worth
\* more than one pass over the lines, and the lines the running loop has not
\* reached
Rank ==
    IF ~InsideCall THEN 0
    ELSE StagesLeft[pc] * (Len(markdown) + 2)
         + (IF pc = "combine" THEN Len(lines) - i
            ELSE IF pc = "reflow" THEN Len(lines) - pos
            ELSE 0)

\* a is a part of b
Occurs(a, b) == \E k \in 1..(Len(b) + 1) : k + Len(a) - 1 <= Len(b) /\ SubSeq(b, k, k + Len(a) - 1) = a

\* the digits of the text of a number heading
NumberOf(line) ==
    LET text == HeadingOf(line).text IN
    AtIndices(text, {k \in 1..Len(text) : text[k] \in Digits}, 1)

\* b ends with a
IsSuffix(a, b) == Len(a) <= Len(b) /\ SubSeq(b, Len(b) - Len(a) + 1, Len(b)) = a

\* C20: a call ends after finitely many steps: every step inside a call lowers a
\* bound that is never negative, so each stage passes over its lines a bounded
\* number of times; an iteration of the merger moves its index forward by one,
\* emitting the line, or by two, consuming both lines in the merged heading, and
\* never past the end; an iteration of reflow moves forward by one.
C20_Terminates ==
    [][/\ InsideCall => (0 <= Rank' /\ Rank' < Rank)
       /\ MergerIterates =>
             /\ i' <= Len(lines)
             /\ Len(combined') = Len(combined) + 1
             /\ \/ i' = i + 1 /\ combined'[Len(combined')] = lines[i + 1]
                \/ /\ i' = i + 2
                   /\ Occurs(NumberOf(lines[i + 1]), combined'[Len(combined')])
                   /\ IsSuffix(HeadingOf(lines[i + 2]).text, combined'[Len(combined')])
       /\ ReflowIterates => (pos' = pos + 1 /\ pos' <= Len(lines))]_vars

\* a call on four lines has merged a number heading with its title, moving the
\* index by two, and has then run every stage to its return
C20_Witness ==
    /\ Returned
    /\ options.combine_numbered_headings
    /\ options.reflow_paragraphs
    /\ Len(InputLines) = 4
    /\ \E k \in 0..2 : MergeRule(InputLines, k)
    /\ cleaned # markdown

\* the options value the settings stand for
OptionsOf(st) ==
    [remove_patterns |-> st.markdown_cleanup_remove_patterns,
     auto_remove_domain_headings |-> st.markdown_cleanup_auto_remove_domains,
     combine_numbered_headings |-> st.markdown_cleanup_combine_headings,
     reflow_paragraphs |-> st.markdown_cleanup_reflow_paragraphs]

\* prepare_response returns in this step
Responds == pc # "responded" /\ pc' = "responded"

\* the result as it was passed in: it is set in the step that returns at once,
\* and not yet touched when the step after the cleanup begins
Given == IF pc = "idle" THEN task_result' ELSE task_result

\* C15: for an export result prepare_response replaces the Markdown of the
\* document only if cleanup is enabled, the Markdown is not empty and the cleaned
\* text differs, and then by cleanup_markdown of the original under the options
\* of the settings; every other field of the document and of the result reaches
\* the response unchanged; a zip, remote-target or chunked result is answered
\* without a call of cleanup_markdown.
C15_OnlyMarkdownReplaced ==
    [][Responds =>
        IF Given.kind = "export"
        THEN LET original == Given.content
                 eligible == /\ settings'.markdown_cleanup_enabled
                             /\ original.has_md_content
                             /\ original.md_content # <<>>
                 alone    == ResultAlone(original.md_content, OptionsOf(settings'))
             IN  /\ response'.type = "ConvertDocumentResponse"
                 /\ response'.document.md_content =
                        IF eligible /\ alone.cleaned # original.md_content
                        THEN alone.cleaned ELSE original.md_content
                 /\ [response'.document EXCEPT !.md_content = original.md_content] = original
                 /\ response'.status = Given.status
                 /\ response'.processing_time = Given.processing_time
                 /\ response'.timings = Given.timings
                 /\ response'.errors = Given.errors
                 /\ calls' = IF eligible THEN 1 ELSE 0
        ELSE /\ calls' = 0
             /\ pc = "idle"
             /\ task_result' = Given
             /\ Given.kind = "zip" =>
                    response' = [type |-> "Response", content |-> Given.content,
                                 media_type |-> "application/zip"]
             /\ Given.kind = "remote" =>
                    response' = [type |-> "PresignedUrlConvertDocumentResponse",
                                 processing_time |-> Given.processing_time,
                                 num_converted |-> Given.num_converted,
                                 num_succeeded |-> Given.num_succeeded,
                                 num_failed |-> Given.num_failed]
             /\ Given.kind = "chunked" =>
                    response' = [type |-> "ChunkDocumentResponse", chunks |-> Given.chunks,
                                 documents |-> Given.documents,
                                 processing_time |-> Given.processing_time]]_vars

\* a document without model_copy has come back with 'First sentence' in place of
\* 'First', 'sentence' and with its other field as it was
C15_Witness ==
    /\ pc = "responded"
    /\ task_result.kind = "export"
    /\ settings.markdown_cleanup_enabled
    /\ ~task_result.content.has_model_copy
    /\ markdown = <<"F", "i", "r", "s", "t", "\n", "s", "e", "n", "t", "e", "n", "c", "e">>
    /\ response.document.md_content =
          <<"F", "i", "r", "s", "t", " ", "s", "e", "n", "t", "e", "n", "c", "e">>
    /\ response.document.filename = "a.pdf"
    /\ response.errors = <<"e1">>

\* an invocation that has ended has returned, or raised, what cleanup_markdown
\* gives for its arguments
EndedAsAlone(frame) ==
    /\ frame.pc = "done" =>
          ResultAlone(frame.markdown, frame.options) = [raised |-> "none", cleaned |-> frame.cleaned]
    /\ frame.pc = "raised" =>
          ResultAlone(frame.markdown, frame.options).raised = frame.raised

\* C16: statelessness: of two invocations, run one after the other or interleaved
\* step by step, each returns what it returns when run alone, and no step of an
\* invocation changes the text or the options that it, or the other one, was
\* given.
C16_Stateless ==
    /\ [](EndedAsAlone(Frame) /\ EndedAsAlone(other))
    /\ [][/\ (InsideCall /\ other' = other) => (markdown' = markdown /\ options' = options)
          /\ other' # other =>
                /\ other'.markdown = markdown /\ other'.options = options
                /\ markdown' = other.markdown /\ options' = other.options]_vars

\* both invocations are inside the reflow loop, each with prose of its own in
\* its buffer
C16_Witness ==
    /\ pc = "reflow"
    /\ other.pc = "reflow"
    /\ paragraph # <<>>
    /\ other.paragraph # <<>>
    /\ paragraph # other.paragraph
    /\ markdown # other.markdown

(***************************************************************************)
(* Subscriber bookkeeping under interleaving.                              *)
(***************************************************************************)
\* the websocket's handler is inside its try block, its cleanup still to come
Connected(websocket) == task_status_ws[websocket].pc = "serving"

\* the task of the handler has a subscriber set and the websocket is in it
Subscribed(websocket) ==
    /\ task_status_ws[websocket].task_id \in DOMAIN task_subscribers
    /\ websocket \in set_objects[task_subscribers[task_status_ws[websocket].task_id]]

\* the cleanup of a handler failed on a missing entry or a missing member
CleanupFailed(websocket) ==
    task_status_ws[websocket].raised \in {"KeyError: task_id", "KeyError: websocket"}

\* the coroutine is suspended at an await inside its loop over a set
Iterating(coroutine) == coroutine.pc \in {"closing", "sending"}

\* the set a loop is iterating over holds what it held when the loop began
Undisturbed(coroutine) ==
    Iterating(coroutine) => set_objects[coroutine.it.set] = coroutine.it.over

\* C21: under every interleaving of the task_status_ws handlers with add_task,
\* remove_task and notify_task_subscribers, the task of every connected
\* websocket still has its subscriber set and the set still holds the
\* websocket, so that the removal of the final cleanup never fails on a
\* missing entry or a missing member, and no handler changes a set while
\* remove_task or notify_task_subscribers is suspended in its loop over it.
C21_SubscriberBookkeeping ==
    /\ \A websocket \in WebSockets : Connected(websocket) => Subscribed(websocket)
    /\ \A websocket \in WebSockets : ~CleanupFailed(websocket)
    /\ Undisturbed(remove_task)
    /\ Undisturbed(notify_task_subscribers)

====
